---- MODULE Spec2Model ----
(***************************************************************************)
(* A/B test notebook (PROJECT_2.ipynb): binomial simulation of two         *)
(* variants, Wald confidence intervals (proportion_ci) and the pooled      *)
(* two-proportion z-test (statsmodels proportions_ztest).                  *)
(*                                                                         *)
(* Floating-point numbers are modelled as decimal floating-point values    *)
(* with six significant digits, rounded toward zero, with the IEEE special *)
(* values inf and nan.  A value is a record                                *)
(*     [kind, sg, m, e]   standing for   sg * m * 10^e                     *)
(* with kind in {"fin","inf","nan"}, sg in {-1,0,1} and, for a finite      *)
(* nonzero value, 10^5 <= m < 10^6.                                        *)
(***************************************************************************)
EXTENDS Integers, Sequences, FiniteSets, TLC

----------------------------------------------------------------------------
(* Decimal floating point *)

MantHi == 1000 * 1000
MantLo == 100 * 1000

Zero   == [kind |-> "fin", sg |-> 0, m |-> 0, e |-> 0]
NaN    == [kind |-> "nan", sg |-> 0, m |-> 0, e |-> 0]
Inf(s) == [kind |-> "inf", sg |-> s, m |-> 0, e |-> 0]

RECURSIVE Norm(_, _, _)
Norm(s, m, e) ==
    IF m = 0 \/ s = 0 THEN Zero
    ELSE IF m >= MantHi THEN Norm(s, m \div 10, e + 1)
    ELSE IF m < MantLo THEN Norm(s, m * 10, e - 1)
    ELSE [kind |-> "fin", sg |-> s, m |-> m, e |-> e]

RECURSIVE Pow10(_)
Pow10(i) == IF i <= 0 THEN 1 ELSE 10 * Pow10(i - 1)

FromInt(i) == IF i < 0 THEN Norm(-1, -i, 0) ELSE Norm(1, i, 0)

\* a literal  i * 10^e
Lit(i, e) == IF i < 0 THEN Norm(-1, -i, e) ELSE Norm(1, i, e)

IsNaN(a)    == a.kind = "nan"
IsInf(a)    == a.kind = "inf"
IsFinite(a) == a.kind = "fin"
IsZero(a)   == a.kind = "fin" /\ a.sg = 0

Neg(a) == [a EXCEPT !.sg = -(a.sg)]
Abs(a) == [a EXCEPT !.sg = IF a.sg = 0 THEN 0 ELSE 1]

\* floor(a * b / 10^5) for six-digit a, b, by three-digit limbs
MulHi(a, b) ==
    LET a1 == a \div 1000
        a0 == a % 1000
        b1 == b \div 1000
        b0 == b % 1000
    IN  a1 * b1 * 10 + ((a1 * b0 + a0 * b1) * 1000 + a0 * b0) \div MantLo

Mul(a, b) ==
    IF IsNaN(a) \/ IsNaN(b) THEN NaN
    ELSE IF IsInf(a) \/ IsInf(b)
         THEN IF a.sg * b.sg = 0 THEN NaN ELSE Inf(a.sg * b.sg)
    ELSE IF a.sg = 0 \/ b.sg = 0 THEN Zero
    ELSE Norm(a.sg * b.sg, MulHi(a.m, b.m), a.e + b.e + 5)

\* floor(r * 10^d / b) by long division, 0 <= r < 10 * b
RECURSIVE LongDiv(_, _, _)
LongDiv(r, b, d) ==
    IF d = 0 THEN r \div b
    ELSE (r \div b) * Pow10(d) + LongDiv((r % b) * 10, b, d - 1)

\* IEEE division (numpy): x/0 is inf, 0/0 is nan
Div(a, b) ==
    IF IsNaN(a) \/ IsNaN(b) THEN NaN
    ELSE IF IsInf(a) THEN IF IsInf(b) THEN NaN
                          ELSE Inf(IF b.sg = 0 THEN a.sg ELSE a.sg * b.sg)
    ELSE IF IsInf(b) THEN Zero
    ELSE IF b.sg = 0 THEN IF a.sg = 0 THEN NaN ELSE Inf(a.sg)
    ELSE IF a.sg = 0 THEN Zero
    ELSE Norm(a.sg * b.sg, LongDiv(a.m, b.m, 6), a.e - b.e - 6)

\* finite addition with three guard digits
AddFin(a, b) ==
    IF a.sg = 0 THEN b
    ELSE IF b.sg = 0 THEN a
    ELSE LET hi == IF a.e >= b.e THEN a ELSE b
             lo == IF a.e >= b.e THEN b ELSE a
             sh == hi.e - lo.e
             up == IF sh > 3 THEN 3 ELSE sh
             dn == sh - up
             x  == hi.sg * hi.m * Pow10(up)
             y  == IF dn > 6 THEN 0 ELSE lo.sg * (lo.m \div Pow10(dn))
             s  == x + y
         IN  IF s < 0 THEN Norm(-1, -s, lo.e + dn) ELSE Norm(1, s, lo.e + dn)

Add(a, b) ==
    IF IsNaN(a) \/ IsNaN(b) THEN NaN
    ELSE IF IsInf(a) THEN IF IsInf(b) /\ b.sg # a.sg THEN NaN ELSE a
    ELSE IF IsInf(b) THEN b
    ELSE AddFin(a, b)

Sub(a, b) == Add(a, Neg(b))

\* largest r in lo..hi with r * r <= x
RECURSIVE ISqrt(_, _, _)
ISqrt(x, lo, hi) ==
    IF lo >= hi THEN lo
    ELSE LET mid == (lo + hi + 1) \div 2
         IN  IF mid * mid <= x THEN ISqrt(x, mid, hi) ELSE ISqrt(x, lo, mid - 1)

\* d more decimal digits of the root p of a number with remainder r
RECURSIVE SqrtDigits(_, _, _)
SqrtDigits(p, r, d) ==
    IF d = 0 THEN p
    ELSE LET r2 == r * 100
             dg == CHOOSE c \in 0..9 :
                     /\ (20 * p + c) * c <= r2
                     /\ (c = 9 \/ (20 * p + c + 1) * (c + 1) > r2)
         IN  SqrtDigits(10 * p + dg, r2 - (20 * p + dg) * dg, d - 1)

\* np.sqrt: nan for a negative argument
Sqrt(a) ==
    IF IsNaN(a) THEN NaN
    ELSE IF a.sg < 0 THEN NaN
    ELSE IF IsInf(a) THEN a
    ELSE IF a.sg = 0 THEN Zero
    ELSE LET odd == (a.e % 2) # 0
             mm  == IF odd THEN a.m * 10 ELSE a.m
             ee  == IF odd THEN a.e - 1 ELSE a.e
             r0  == ISqrt(mm, 0, 4000)
         IN  Norm(1, SqrtDigits(r0, mm - r0 * r0, 3), (ee \div 2) - 3)

\* comparisons (false when either side is nan)
Cmp(a, b) ==
    LET d == Sub(a, b) IN
    IF a.kind = "inf" /\ b.kind = "inf" /\ a.sg = b.sg THEN 0
    ELSE IF a.kind = "fin" /\ b.kind = "fin"
         THEN IF a.sg # b.sg THEN (IF a.sg < b.sg THEN -1 ELSE 1)
              ELSE IF a.sg = 0 THEN 0
              ELSE IF a.e # b.e THEN (IF a.e < b.e THEN -(a.sg) ELSE a.sg)
              ELSE IF a.m = b.m THEN 0
              ELSE IF a.m < b.m THEN -(a.sg) ELSE a.sg
    ELSE d.sg

Lt(a, b) == ~IsNaN(a) /\ ~IsNaN(b) /\ Cmp(a, b) < 0
Le(a, b) == ~IsNaN(a) /\ ~IsNaN(b) /\ Cmp(a, b) <= 0
Eq(a, b) == ~IsNaN(a) /\ ~IsNaN(b) /\ Cmp(a, b) = 0

One     == Lit(1, 0)
Two     == Lit(2, 0)
Half    == Lit(5, -1)
Hundred == Lit(100, 0)

----------------------------------------------------------------------------
(* scipy.stats.norm *)

\* 10^6 * (1 - Phi(i / 10)) for i = 0..50
SfTable ==
    << 500000, 460172, 420740, 382089, 344578, 308538, 274253, 241964,
       211855, 184060, 158655, 135666, 115070, 96800, 80757, 66807,
       54799, 44565, 35930, 28717, 22750, 17864, 13903, 10724,
       8198, 6210, 4661, 3467, 2555, 1866, 1350, 968,
       687, 483, 337, 233, 159, 108, 72, 48,
       32, 21, 13, 9, 5, 3, 2, 1,
       1, 0, 0 >>

\* |a| in thousandths, rounded toward zero and capped at 5000
Milli(a) ==
    IF a.sg = 0 THEN 0
    ELSE IF a.e > -5 THEN 5000
    ELSE IF a.e < -9 THEN 0
    ELSE a.m \div Pow10(-(a.e + 3))

\* 10^6 * (1 - Phi(zi / 1000)), zi >= 0, by linear interpolation
SfPos(zi) ==
    IF zi >= 5000 THEN 0
    ELSE LET i == zi \div 100
             f == zi % 100
         IN  (SfTable[i + 1] * (100 - f) + SfTable[i + 2] * f) \div 100

norm_cdf(z) ==
    IF IsNaN(z) THEN NaN
    ELSE IF IsInf(z) THEN (IF z.sg > 0 THEN One ELSE Zero)
    ELSE IF z.sg >= 0 THEN Norm(1, MantHi - SfPos(Milli(z)), -6)
    ELSE Norm(1, SfPos(Milli(z)), -6)

\* scipy: sf(x) = cdf(-x)
norm_sf(z) == norm_cdf(Neg(z))

\* quantiles for q > 1/2 (the quantiles the drawn alphas ask for)
PpfUpper(q) ==
    CASE q = Lit(995, -3) -> Lit(257582, -5)
      [] q = Lit(975, -3) -> Lit(195996, -5)
      [] q = Lit(95, -2)  -> Lit(164485, -5)
      [] q = Lit(9, -1)   -> Lit(128155, -5)
      [] q = Lit(75, -2)  -> Lit(674489, -6)
      [] q = Lit(55, -2)  -> Lit(125661, -6)

\* norm.ppf: nan outside [0,1], -inf at 0, +inf at 1
norm_ppf(q) ==
    IF IsNaN(q) \/ IsInf(q) THEN NaN
    ELSE IF Lt(q, Zero) \/ Lt(One, q) THEN NaN
    ELSE IF Eq(q, Zero) THEN Inf(-1)
    ELSE IF Eq(q, One) THEN Inf(1)
    ELSE IF Eq(q, Half) THEN Zero
    ELSE IF Lt(Half, q) THEN PpfUpper(q)
    ELSE Neg(PpfUpper(Sub(One, q)))

----------------------------------------------------------------------------
(* Cell 3: proportion_ci *)

DefaultAlpha == Lit(5, -2)

NoCi == [raised |-> "unset", p_hat |-> Zero, lower |-> Zero, upper |-> Zero]

\* proportion_ci as it would be with the range checks the code lacks
proportion_ci_validating(k, n, alpha) ==
    IF n <= 0 \/ k < 0 \/ k > n \/ ~(Lt(Zero, alpha) /\ Lt(alpha, One))
    THEN [raised |-> "InvalidArgument", p_hat |-> Zero, lower |-> Zero, upper |-> Zero]
    ELSE LET p_hat      == Div(FromInt(k), FromInt(n))
             z          == norm_ppf(Sub(One, Div(alpha, Two)))
             se         == Sqrt(Div(Mul(p_hat, Sub(One, p_hat)), FromInt(n)))
             half_width == Mul(z, se)
         IN  [raised |-> "none", p_hat |-> p_hat,
              lower |-> Sub(p_hat, half_width), upper |-> Add(p_hat, half_width)]

\* proportion_ci with the quantile taken in the lower tail: ppf(alpha / 2)
proportion_ci_lower_tail(k, n, alpha) ==
    IF n = 0
    THEN [raised |-> "ZeroDivisionError", p_hat |-> Zero, lower |-> Zero, upper |-> Zero]
    ELSE LET p_hat      == Div(FromInt(k), FromInt(n))
             z          == norm_ppf(Div(alpha, Two))
             se         == Sqrt(Div(Mul(p_hat, Sub(One, p_hat)), FromInt(n)))
             half_width == Mul(z, se)
         IN  [raised |-> "none", p_hat |-> p_hat,
              lower |-> Sub(p_hat, half_width), upper |-> Add(p_hat, half_width)]

\* proportion_ci with the one-sided quantile: ppf(1 - alpha)
proportion_ci_one_sided(k, n, alpha) ==
    IF n = 0
    THEN [raised |-> "ZeroDivisionError", p_hat |-> Zero, lower |-> Zero, upper |-> Zero]
    ELSE LET p_hat      == Div(FromInt(k), FromInt(n))
             z          == norm_ppf(Sub(One, alpha))
             se         == Sqrt(Div(Mul(p_hat, Sub(One, p_hat)), FromInt(n)))
             half_width == Mul(z, se)
         IN  [raised |-> "none", p_hat |-> p_hat,
              lower |-> Sub(p_hat, half_width), upper |-> Add(p_hat, half_width)]

\* proportion_ci with the bounds clipped to [0,1]
proportion_ci_clipped(k, n, alpha) ==
    IF n = 0
    THEN [raised |-> "ZeroDivisionError", p_hat |-> Zero, lower |-> Zero, upper |-> Zero]
    ELSE LET p_hat      == Div(FromInt(k), FromInt(n))
             z          == norm_ppf(Sub(One, Div(alpha, Two)))
             se         == Sqrt(Div(Mul(p_hat, Sub(One, p_hat)), FromInt(n)))
             half_width == Mul(z, se)
             lo         == Sub(p_hat, half_width)
             hi         == Add(p_hat, half_width)
         IN  [raised |-> "none", p_hat |-> p_hat,
              lower |-> IF Lt(lo, Zero) THEN Zero ELSE lo,
              upper |-> IF Lt(One, hi) THEN One ELSE hi]

\* k / n on Python ints raises ZeroDivisionError for n = 0; nothing else
\* in the body raises
proportion_ci(k, n, alpha) ==
    IF n = 0
    THEN [raised |-> "ZeroDivisionError", p_hat |-> Zero, lower |-> Zero, upper |-> Zero]
    ELSE LET p_hat      == Div(FromInt(k), FromInt(n))
             z          == norm_ppf(Sub(One, Div(alpha, Two)))
             se         == Sqrt(Div(Mul(p_hat, Sub(One, p_hat)), FromInt(n)))
             half_width == Mul(z, se)
         IN  [raised |-> "none", p_hat |-> p_hat,
              lower |-> Sub(p_hat, half_width), upper |-> Add(p_hat, half_width)]

----------------------------------------------------------------------------
(* Cell 5: statsmodels proportions_ztest(count, nobs, alternative) *)

Alternatives == {"two-sided", "larger", "smaller"}

NoTest == [raised |-> "unset", stat |-> Zero, pval |-> Zero]

\* _zstat_generic2 dividing as Python floats do: a zero divisor raises
zstat_generic2_python_div(value, std, alternative) ==
    IF IsZero(std)
    THEN [raised |-> "ZeroDivisionError", stat |-> Zero, pval |-> Zero]
    ELSE LET zstat == Div(value, std) IN
         IF alternative = "two-sided"
         THEN [raised |-> "none", stat |-> zstat, pval |-> Mul(norm_sf(Abs(zstat)), Two)]
         ELSE IF alternative = "larger"
         THEN [raised |-> "none", stat |-> zstat, pval |-> norm_sf(zstat)]
         ELSE [raised |-> "none", stat |-> zstat, pval |-> norm_cdf(zstat)]

\* _zstat_generic2 with the upper tail taken for 'smaller' as for 'larger'
zstat_generic2_same_tail(value, std, alternative) ==
    LET zstat == Div(value, std) IN
    IF alternative = "two-sided"
    THEN [raised |-> "none", stat |-> zstat, pval |-> Mul(norm_sf(Abs(zstat)), Two)]
    ELSE [raised |-> "none", stat |-> zstat, pval |-> norm_sf(zstat)]

\* _zstat_generic2 with the two-sided tail taken at z instead of |z|
zstat_generic2_no_abs(value, std, alternative) ==
    LET zstat == Div(value, std) IN
    IF alternative = "two-sided"
    THEN [raised |-> "none", stat |-> zstat, pval |-> Mul(norm_sf(zstat), Two)]
    ELSE IF alternative = "larger"
    THEN [raised |-> "none", stat |-> zstat, pval |-> norm_sf(zstat)]
    ELSE [raised |-> "none", stat |-> zstat, pval |-> norm_cdf(zstat)]

\* _zstat_generic2(value, std, alternative)
zstat_generic2(value, std, alternative) ==
    LET zstat == Div(value, std) IN
    IF alternative = "two-sided"
    THEN [raised |-> "none", stat |-> zstat, pval |-> Mul(norm_sf(Abs(zstat)), Two)]
    ELSE IF alternative = "larger"
    THEN [raised |-> "none", stat |-> zstat, pval |-> norm_sf(zstat)]
    ELSE IF alternative = "smaller"
    THEN [raised |-> "none", stat |-> zstat, pval |-> norm_cdf(zstat)]
    ELSE [raised |-> "ValueError", stat |-> Zero, pval |-> Zero]

\* diff taken as the second sample minus the first
ztest_diff_second_minus_first(prop1, prop2) == Sub(prop2, prop1)

\* diff = prop[0] - prop[1]: the first sample minus the second
ztest_diff(prop1, prop2) == Sub(prop1, prop2)

\* pooled standard error of the difference
ztest_std(cnt, nob) ==
    LET p_pooled  == Div(FromInt(cnt[1] + cnt[2]), FromInt(nob[1] + nob[2]))
        nobs_fact == Add(Div(One, FromInt(nob[1])), Div(One, FromInt(nob[2])))
        var_      == Mul(Mul(p_pooled, Sub(One, p_pooled)), nobs_fact)
    IN  Sqrt(var_)

\* proportions_ztest as it would be with the check of nobs the code lacks
proportions_ztest_validating(cnt, nob, alternative) ==
    IF nob[1] <= 0 \/ nob[2] <= 0
    THEN [raised |-> "InvalidArgument", stat |-> Zero, pval |-> Zero]
    ELSE LET prop1 == Div(FromInt(cnt[1]), FromInt(nob[1]))
             prop2 == Div(FromInt(cnt[2]), FromInt(nob[2]))
         IN  zstat_generic2(ztest_diff(prop1, prop2), ztest_std(cnt, nob), alternative)

proportions_ztest(cnt, nob, alternative) ==
    LET prop1 == Div(FromInt(cnt[1]), FromInt(nob[1]))
        prop2 == Div(FromInt(cnt[2]), FromInt(nob[2]))
    IN  zstat_generic2(ztest_diff(prop1, prop2), ztest_std(cnt, nob), alternative)

----------------------------------------------------------------------------
(* Cell 2: simulation *)

n_A == 10000
n_B == 10000
p_A == Lit(10, -2)
p_B == Lit(12, -2)

\* the draws of the recorded run
RecordedDraws == {949, 1243}

\* the draws explored are those within MaxDraw of either end of 0..n,
\* and the recorded ones
MaxDraw == 2

\* np.random.binomial with a support one too long
binomial_off_by_one(n, p) ==
    IF Eq(p, Zero) THEN {0}
    ELSE IF Eq(p, One) THEN {n}
    ELSE 0..(n + 1)

\* support of np.random.binomial(n, p) for n >= 0 and p in [0,1]
binomial(n, p) ==
    IF Eq(p, Zero) THEN {0}
    ELSE IF Eq(p, One) THEN {n}
    ELSE 0..n

Draws(n, p) ==
    {k \in binomial(n, p) : k <= MaxDraw \/ k >= n - MaxDraw \/ k \in RecordedDraws}

----------------------------------------------------------------------------
(* State *)

VARIABLES
    pc,                     \* next notebook cell to run
    success_A, success_B,   \* cell 2
    ci_A, ci_B,             \* cell 3: (cr, ci_low, ci_high) of each variant
    results,                \* cell 3: the table, in percent
    yerr,                   \* cell 4: error bars of the plot
    count, nobs,            \* cell 5
    test,                   \* cell 5: (stat, pval)
    k, n, alpha,            \* arguments of a direct call of proportion_ci
    ci_out, ci_prev,        \* its result, and the result of the call before
    zcount, znobs, alternative,  \* arguments of a direct call of the z-test
    z_out, z_prev           \* its result, and the result of the call before

nbVars == <<pc, success_A, success_B, ci_A, ci_B, results, yerr, count, nobs, test>>
ciVars == <<k, n, alpha, ci_out, ci_prev>>
ztVars == <<zcount, znobs, alternative, z_out, z_prev>>
vars   == <<nbVars, ciVars, ztVars>>

NbIdle ==
    /\ pc = "idle"
    /\ success_A = -1 /\ success_B = -1
    /\ ci_A = NoCi /\ ci_B = NoCi
    /\ results = <<>> /\ yerr = <<>>
    /\ count = <<>> /\ nobs = <<>>
    /\ test = NoTest

NoCiCall == [alpha |-> Zero, res |-> NoCi]
NoZCall  == [count |-> <<>>, nobs |-> <<>>, alternative |-> "", res |-> NoTest]

CiIdle ==
    /\ k = 0 /\ n = 0 /\ alpha = Zero
    /\ ci_out = NoCiCall /\ ci_prev = NoCiCall

ZtIdle ==
    /\ zcount = <<>> /\ znobs = <<>> /\ alternative = ""
    /\ z_out = NoZCall /\ z_prev = NoZCall

----------------------------------------------------------------------------
(* The notebook, run top to bottom *)

Init ==
    /\ pc = "cell2"
    /\ success_A = -1 /\ success_B = -1
    /\ ci_A = NoCi /\ ci_B = NoCi
    /\ results = <<>> /\ yerr = <<>>
    /\ count = <<>> /\ nobs = <<>>
    /\ test = NoTest
    /\ CiIdle /\ ZtIdle

Simulate ==
    /\ pc = "cell2"
    /\ success_A' \in Draws(n_A, p_A)
    /\ success_B' \in Draws(n_B, p_B)
    /\ pc' = "cell3"
    /\ UNCHANGED <<ci_A, ci_B, results, yerr, count, nobs, test, ciVars, ztVars>>

Row(variant, visitors, conversions, ci) ==
    [Variant |-> variant, Visitors |-> visitors, Conversions |-> conversions,
     CR |-> Mul(ci.p_hat, Hundred),
     CILower |-> Mul(ci.lower, Hundred),
     CIUpper |-> Mul(ci.upper, Hundred)]

Estimate ==
    /\ pc = "cell3"
    /\ ci_A' = proportion_ci(success_A, n_A, DefaultAlpha)
    /\ ci_B' = proportion_ci(success_B, n_B, DefaultAlpha)
    /\ results' = << Row("A", n_A, success_A, ci_A'), Row("B", n_B, success_B, ci_B') >>
    /\ pc' = "cell4"
    /\ UNCHANGED <<success_A, success_B, yerr, count, nobs, test, ciVars, ztVars>>

Plot ==
    /\ pc = "cell4"
    /\ yerr' = << [i \in 1..2 |-> Sub(results[i].CR, results[i].CILower)],
                  [i \in 1..2 |-> Sub(results[i].CIUpper, results[i].CR)] >>
    /\ pc' = "cell5"
    /\ UNCHANGED <<success_A, success_B, ci_A, ci_B, results, count, nobs, test,
                   ciVars, ztVars>>

\* cell 5 with the counts listed B first while nobs lists A first
ZTest_counts_reversed ==
    /\ pc = "cell5"
    /\ count' = <<success_B, success_A>>
    /\ nobs' = <<n_A, n_B>>
    /\ test' = proportions_ztest(count', nobs', "larger")
    /\ pc' = "done"
    /\ UNCHANGED <<success_A, success_B, ci_A, ci_B, results, yerr, ciVars, ztVars>>

ZTest ==
    /\ pc = "cell5"
    /\ count' = <<success_A, success_B>>
    /\ nobs' = <<n_A, n_B>>
    /\ test' = proportions_ztest(count', nobs', "larger")
    /\ pc' = "done"
    /\ UNCHANGED <<success_A, success_B, ci_A, ci_B, results, yerr, ciVars, ztVars>>

Next == Simulate \/ Estimate \/ Plot \/ ZTest

Spec == Init /\ [][Next]_vars

----------------------------------------------------------------------------
(* proportion_ci called directly, on arguments of every kind *)

MaxN == 4

ValidAlphas   == {Lit(1, -2), Lit(5, -2), Lit(1, -1), Lit(2, -1), Lit(5, -1), Lit(9, -1)}
InvalidAlphas == {Zero, One, Lit(15, -1), Two, Lit(-5, -1), Lit(25, -1)}
Alphas        == ValidAlphas \cup InvalidAlphas

CiArgs ==
    {<<a, b>> : a \in -1..(MaxN + 1), b \in -1..MaxN}
        \cup {<<a, n_A>> : a \in RecordedDraws}
        \cup {<<1, 10>>}

InitCI ==
    /\ NbIdle /\ ZtIdle
    /\ \E kn \in CiArgs : k = kn[1] /\ n = kn[2]
    /\ alpha \in Alphas
    /\ ci_out = NoCiCall /\ ci_prev = NoCiCall

CallProportionCi ==
    /\ ci_out.res.raised = "unset" \/ ci_out.alpha # alpha
    /\ ci_out' = [alpha |-> alpha, res |-> proportion_ci(k, n, alpha)]
    /\ ci_prev' = ci_out
    /\ UNCHANGED <<k, n, alpha, nbVars, ztVars>>

\* the caller asks again for the same counts at another level
ChangeAlpha ==
    /\ ci_out.res.raised # "unset"
    /\ ci_prev.res.raised = "unset"
    /\ ci_out.alpha = alpha
    /\ alpha' \in Alphas \ {alpha}
    /\ UNCHANGED <<k, n, ci_out, ci_prev, nbVars, ztVars>>

NextCI == CallProportionCi \/ ChangeAlpha

SpecCI == InitCI /\ [][NextCI]_vars

----------------------------------------------------------------------------
(* proportions_ztest called directly *)

MaxObs == 3

ZObs ==
    {<<a, b>> \in (0..MaxObs) \X (1..MaxObs) : a <= b}
        \cup {<<a, n_A>> : a \in RecordedDraws \cup {0, n_A}}
        \cup ((0..1) \X (-1..0))

InitZ ==
    /\ NbIdle /\ CiIdle
    /\ \E o1 \in ZObs, o2 \in ZObs :
          /\ zcount = <<o1[1], o2[1]>>
          /\ znobs = <<o1[2], o2[2]>>
    /\ alternative \in Alternatives
    /\ z_out = NoZCall /\ z_prev = NoZCall

ZArgsOf(c) == <<c.count, c.nobs, c.alternative>>

CallZtest ==
    /\ ZArgsOf(z_out) # <<zcount, znobs, alternative>>
    /\ z_out' = [count |-> zcount, nobs |-> znobs, alternative |-> alternative,
                 res |-> proportions_ztest(zcount, znobs, alternative)]
    /\ z_prev' = z_out
    /\ UNCHANGED <<zcount, znobs, alternative, nbVars, ciVars>>

Opposite(alt) ==
    IF alt = "larger" THEN "smaller" ELSE IF alt = "smaller" THEN "larger" ELSE alt

\* the caller swaps the two observations and the direction
SwapObservations ==
    /\ z_out.res.raised # "unset"
    /\ z_prev.res.raised = "unset"
    /\ ZArgsOf(z_out) = <<zcount, znobs, alternative>>
    /\ zcount' = <<zcount[2], zcount[1]>>
    /\ znobs' = <<znobs[2], znobs[1]>>
    /\ alternative' = Opposite(alternative)
    /\ UNCHANGED <<z_out, z_prev, nbVars, ciVars>>

NextZ == CallZtest \/ SwapObservations

SpecZ == InitZ /\ [][NextZ]_vars

----------------------------------------------------------------------------
(* Properties *)

Sgn(i) == IF i < 0 THEN -1 ELSE IF i = 0 THEN 0 ELSE 1

CiCalled  == ci_out.res.raised # "unset"
CiValid   == n > 0 /\ 0 <= k /\ k <= n /\ Lt(Zero, alpha) /\ Lt(alpha, One)
CiCurrent == CiCalled /\ ci_out.alpha = alpha

ZCalled  == z_out.res.raised # "unset"
ZCurrent == ZCalled /\ ZArgsOf(z_out) = <<zcount, znobs, alternative>>
ZValid   == \A i \in 1..2 : znobs[i] > 0 /\ 0 <= zcount[i] /\ zcount[i] <= znobs[i]
ZDegenerate == zcount[1] + zcount[2] = 0 \/ zcount[1] + zcount[2] = znobs[1] + znobs[2]

\* C1: in the recorded run (A = 949/10000, B = 1243/10000) the test of
\* "B's rate > A's rate" reports a p-value below 0.0001, hence below 0.05,
\* so B is declared significantly better.
C1_BGreaterSmallP ==
    (pc = "done" /\ success_A = 949 /\ success_B = 1243)
        => /\ test.raised = "none"
           /\ Lt(test.pval, Lit(1, -4))
           /\ Lt(test.pval, Lit(5, -2))

\* C2: for valid observations with nonzero pooled standard error, the
\* z-statistic has the sign of (k2/n2 - k1/n1), i.e. of k2*n1 - k1*n2.
C2_ZSignSecondMinusFirst ==
    (ZCurrent /\ ZValid /\ ~ZDegenerate)
        => z_out.res.stat.sg = Sgn(zcount[2] * znobs[1] - zcount[1] * znobs[2])

\* C3: direction to p-value: "greater" (alternative 'larger') gives
\* 1 - Phi(z), "less" ('smaller') gives Phi(z), "two-sided" gives
\* 2(1 - Phi(|z|)); and for "greater" the p-value is below 1/2 exactly
\* when variant 2's observed rate is above variant 1's.
C3_DirectionMapping ==
    (ZCurrent /\ ZValid /\ ~ZDegenerate)
        => LET z == z_out.res.stat
               p == z_out.res.pval
           IN  /\ alternative = "larger" => p = Sub(One, norm_cdf(z))
               /\ alternative = "smaller" => p = norm_cdf(z)
               /\ alternative = "two-sided"
                     => p = Mul(Two, Sub(One, norm_cdf(Abs(z))))
               /\ alternative = "larger"
                     => (Lt(p, Half) <=> zcount[2] * znobs[1] > zcount[1] * znobs[2])

C5_InvalidArgumentRaised ==
    (CiCurrent /\ ~CiValid) => ci_out.res.raised = "InvalidArgument"

\* C5 (amended): proportion_ci validates nothing and never fails with
\* InvalidArgument: for n = 0 it raises ZeroDivisionError, and for every
\* other argument, in range or not, it raises nothing and returns a triple.
C5_NoValidation ==
    CiCurrent
        => /\ ci_out.res.raised # "InvalidArgument"
           /\ n = 0 => ci_out.res.raised = "ZeroDivisionError"
           /\ n # 0 => ci_out.res.raised = "none"

C5_Witness ==
    /\ CiCurrent /\ ~CiValid /\ n # 0
    /\ ci_out.res.raised = "none"
    /\ IsNaN(ci_out.res.lower)

\* C6: when the pooled standard error is zero (both counts 0, or both
\* counts equal to their trial counts) the tester returns NaN for z and for
\* the p-value, raising nothing and returning no ordinary number.
C6_DegenerateIsNaN ==
    (ZCurrent /\ ZValid /\ IsZero(ztest_std(zcount, znobs)))
        => /\ z_out.res.raised = "none"
           /\ IsNaN(z_out.res.stat)
           /\ IsNaN(z_out.res.pval)

C6_Witness ==
    /\ ZCurrent /\ ZValid /\ IsZero(ztest_std(zcount, znobs))
    /\ zcount = <<0, 0>> /\ znobs = <<n_A, n_B>>
    /\ IsNaN(z_out.res.stat)

\* C7: swapping the two observations together with the direction
\* ("greater" <-> "less") leaves the p-value unchanged and negates z.
ZSwapped ==
    /\ z_prev.res.raised # "unset"
    /\ ZCurrent
    /\ z_prev.count = <<zcount[2], zcount[1]>>
    /\ z_prev.nobs = <<znobs[2], znobs[1]>>
    /\ z_prev.alternative = Opposite(alternative)
    /\ alternative \in {"larger", "smaller"}

C7_Antisymmetric ==
    (ZSwapped /\ ZValid /\ ~ZDegenerate)
        => /\ z_out.res.pval = z_prev.res.pval
           /\ z_out.res.stat = Neg(z_prev.res.stat)

C7_Witness ==
    /\ ZSwapped /\ ZValid /\ ~ZDegenerate
    /\ z_out.res.stat.sg = 1
    /\ z_prev.res.stat.sg = -1
    /\ Lt(z_out.res.pval, Half)

AlphaValid(a) == Lt(Zero, a) /\ Lt(a, One)

CiTwoCalls ==
    /\ CiCurrent
    /\ ci_prev.res.raised # "unset"
    /\ n > 0 /\ 0 <= k /\ k <= n
    /\ AlphaValid(ci_out.alpha) /\ AlphaValid(ci_prev.alpha)

Contains(wide, narrow) ==
    /\ Le(wide.lower, narrow.lower)
    /\ Le(narrow.upper, wide.upper)
    /\ Le(Sub(narrow.upper, narrow.lower), Sub(wide.upper, wide.lower))

Near(a, b, tol) == Le(Abs(Sub(a, b)), tol)

Scenario(ci, row, p, lo, hi) ==
    /\ ci.raised = "none"
    /\ ci.p_hat = p
    /\ Near(ci.lower, lo, Lit(1, -6))
    /\ Near(ci.upper, hi, Lit(1, -6))
    /\ row.CR = Mul(p, Hundred)
    /\ Near(row.CILower, Mul(lo, Hundred), Lit(1, -4))
    /\ Near(row.CIUpper, Mul(hi, Hundred), Lit(1, -4))

C10_RecordedScenarios ==
    pc \in {"cell4", "cell5", "done"}
        => /\ success_A = 949
                => Scenario(ci_A, results[1], Lit(949, -4),
                            Lit(89156, -6), Lit(100644, -6))
           /\ success_B = 1243
                => Scenario(ci_B, results[2], Lit(1243, -4),
                            Lit(117834, -6), Lit(130766, -6))

C10_Witness ==
    /\ pc = "done" /\ success_A = 949 /\ success_B = 1243
    /\ results[1].Conversions = 949 /\ results[2].Conversions = 1243
    /\ Lt(ci_A.upper, ci_B.lower)

\* C11 (as claimed): for valid observations and any direction the p-value
\* is a number in [0,1], the degenerate cases (both proportions 0, or both
\* 1) included.
C11_PValueInUnitInterval ==
    (ZCurrent /\ ZValid)
        => /\ Le(Zero, z_out.res.pval)
           /\ Le(z_out.res.pval, One)

\* C11 (amended): for valid observations with nonzero pooled standard
\* error the p-value is a number in [0,1]; in the degenerate cases it is
\* nan.
C11_PValueInUnitIntervalOrNaN ==
    (ZCurrent /\ ZValid)
        => /\ z_out.res.raised = "none"
           /\ ~ZDegenerate => /\ Le(Zero, z_out.res.pval)
                              /\ Le(z_out.res.pval, One)
           /\ ZDegenerate => IsNaN(z_out.res.pval)

C11_Witness ==
    /\ ZCurrent /\ ZValid /\ ~ZDegenerate
    /\ alternative = "two-sided"
    /\ z_out.res.stat.sg = -1
    /\ Lt(Half, z_out.res.pval)
    /\ Le(z_out.res.pval, One)

\* C12: each drawn count is an integer with 0 <= success_count <=
\* trial_count, for both variants and for every n > 0 and p in [0,1], so
\* the point estimate derived from it lies in [0,1].
InUnit(a) == Le(Zero, a) /\ Le(a, One)

C12_CountWithinTrials ==
    /\ pc # "cell2" => /\ success_A \in 0..n_A
                       /\ success_B \in 0..n_B
    /\ pc \in {"cell4", "cell5", "done"} => /\ InUnit(ci_A.p_hat)
                                            /\ InUnit(ci_B.p_hat)
    /\ \A nn \in 1..MaxN : \A pp \in {Zero, p_A, p_B, One} :
          binomial(nn, pp) \subseteq 0..nn

C12_Witness ==
    /\ pc = "done"
    /\ success_A = n_A /\ success_B = 0
    /\ ci_A.p_hat = One /\ ci_B.p_hat = Zero

\* C13 (as claimed): the run is reproducible: a run with the inputs of
\* the recorded run (n = 10000, p = 0.10 and 0.12) draws the counts the
\* recorded run drew, 949 and 1243.
C13_ReproducesRecordedRun ==
    pc # "cell2" => success_A = 949 /\ success_B = 1243

\* C13 (amended): no seed is taken, so a run draws any counts of the
\* binomial support; a run that draws the recorded counts reproduces the
\* recorded table and the recorded z-test output (z = -6.655, p = 1.0000).
C13_SameCountsSameResults ==
    /\ pc # "cell2" => success_A \in binomial(n_A, p_A) /\ success_B \in binomial(n_B, p_B)
    /\ (pc = "done" /\ success_A = 949 /\ success_B = 1243)
          => /\ results[1].CR = Lit(949, -2)
             /\ Near(results[1].CILower, Lit(8915580, -6), Lit(1, -5))
             /\ Near(results[1].CIUpper, Lit(10064420, -6), Lit(1, -4))
             /\ results[2].CR = Lit(1243, -2)
             /\ Near(results[2].CILower, Lit(11783362, -6), Lit(1, -4))
             /\ Near(results[2].CIUpper, Lit(13076638, -6), Lit(1, -4))
             /\ Near(test.stat, Lit(-6655, -3), Lit(5, -4))
             /\ Near(test.pval, One, Lit(5, -5))

C13_Witness ==
    /\ pc = "done" /\ success_A = 949 /\ success_B = 1243
    /\ count = <<949, 1243>>
    /\ test.stat.sg = -1

\* C14 (as claimed): the tester fails with InvalidArgument whenever
\* n1 <= 0 or n2 <= 0.
ZBadNobs == znobs[1] <= 0 \/ znobs[2] <= 0

C14_OrdinaryResult ==
    /\ ZCurrent /\ ZBadNobs
    /\ IsFinite(z_out.res.stat) /\ IsFinite(z_out.res.pval)

\* C15: the bounds are returned unclipped: at the default alpha (or a
\* smaller one) every valid input with k = 1 < n has lower_bound < 0 and
\* every one with k = n - 1 > 0 has upper_bound > 1 (k = 1, n = 10 among
\* them), while the point estimate always stays in [0,1].
C15_BoundsNotClipped ==
    (CiCurrent /\ CiValid)
        => /\ ci_out.res.raised = "none"
           /\ InUnit(ci_out.res.p_hat)
           /\ (Le(alpha, DefaultAlpha) /\ k = 1 /\ n >= 2)
                 => Lt(ci_out.res.lower, Zero)
           /\ (Le(alpha, DefaultAlpha) /\ k = n - 1 /\ n >= 2)
                 => Lt(One, ci_out.res.upper)

C15_Witness ==
    /\ CiCurrent /\ CiValid
    /\ k = 1 /\ n = 10 /\ alpha = DefaultAlpha
    /\ Lt(ci_out.res.lower, Zero)
    /\ Lt(Zero, ci_out.res.p_hat)
    /\ Lt(ci_out.res.upper, One)

NothingEstimated ==
    /\ ci_A = NoCi /\ ci_B = NoCi
    /\ results = <<>> /\ yerr = <<>>
    /\ count = <<>> /\ nobs = <<>> /\ test = NoTest

RowOf(row, variant, success, visitors, ci) ==
    /\ row.Variant = variant
    /\ row.Visitors = visitors
    /\ row.Conversions = success
    /\ ci.p_hat = Div(FromInt(success), FromInt(visitors))
    /\ row.CR = Mul(ci.p_hat, Hundred)
    /\ row.CILower = Mul(ci.lower, Hundred)
    /\ row.CIUpper = Mul(ci.upper, Hundred)

SamePairs ==
    /\ pc = "cell2" => success_A = -1 /\ success_B = -1
    /\ pc \in {"cell2", "cell3"} => NothingEstimated
    /\ pc \in {"cell4", "cell5", "done"}
          => /\ RowOf(results[1], "A", success_A, n_A, ci_A)
             /\ RowOf(results[2], "B", success_B, n_B, ci_B)
    /\ pc \in {"cell5", "done"}
          => \A i \in 1..2 :
                /\ yerr[1][i] = Sub(results[i].CR, results[i].CILower)
                /\ yerr[2][i] = Sub(results[i].CIUpper, results[i].CR)
    /\ pc = "done"
          => /\ count = <<success_A, success_B>>
             /\ nobs = <<n_A, n_B>>

C17_DrawnOnceSharedPairs ==
    /\ []SamePairs
    /\ [][/\ pc = "cell2" => /\ success_A' \in 0..n_A
                             /\ success_B' \in 0..n_B
          /\ pc # "cell2" => /\ success_A' = success_A
                             /\ success_B' = success_B]_vars

C17_Witness ==
    /\ pc = "done"
    /\ success_A # success_B
    /\ count = <<success_A, success_B>>
    /\ nobs = <<n_A, n_B>>
    /\ results[1].Conversions = count[1]
    /\ results[2].Conversions = count[2]

====
